---- MODULE Spec2Model ----
(***************************************************************************)
(* Chat history routes of pixly (routers/chat.py) over the process-wide    *)
(* ChatHistoryManager.  The route handlers are coroutines of one event     *)
(* loop: a handler keeps the loop from its start to its next await, and    *)
(* the only await of the module is the call of the chat model.  The        *)
(* manager (backend/chat_history.py) is modelled from its specification:   *)
(* a per-scope ordered log plus a vector index of record ids.              *)
(***************************************************************************)
EXTENDS Integers, Sequences, FiniteSets, TLC

(* ------------------------------ bounds -------------------------------- *)

\* Records created in one run (record ids are 1..MaxRecords).
MaxRecords == 3

\* The manager's clock, in hours, runs from 0 to MaxClock.
MaxClock == 2

(* ------------------------- program constants -------------------------- *)

\* ChatHistoryManager(max_history=30)
InitialMaxHistory == 30

\* if max_history < 1 or max_history > 100
MinMaxHistory == 1
MaxMaxHistory == 100

\* history_limit = getattr(message, 'history_limit', 5)
DefaultHistoryLimit == 5

\* n_results: int = 5
DefaultNResults == 5

(* ------------------------------ inputs -------------------------------- *)

\* The coroutines (requests in flight) of the event loop.
Procs == {"t1", "t2"}

\* The coroutine that serves the handlers without an await: such a handler
\* runs from start to return on the event loop, so two of them never
\* overlap and one coroutine stands for all.  chat() is served by both.
PlainProcs == {"t1"}

\* No coroutine holds the event loop.
None == "none"

\* The scopes (games); "general" is the default of the chat route.
DefaultGame == "general"
Scopes == {DefaultGame, "minecraft"}

\* An Optional[int] is <<>> (None) or <<n>>.
Absent == <<>>
Some(n) == <<n>>

\* The values offered to POST /settings/history.
MaxHistoryInputs == {0, 1, 2, 100, 101}

\* The values offered as limit and hours_ago of GET /history/{game}.
LimitInputs == {Absent, Some(1)}
HoursInputs == {Absent, Some(1)}

\* The values offered as history_limit of POST /chat (absent: the default).
HistoryLimitInputs == {Absent, Some(1)}

\* The values offered as n_results of POST /history/search (absent: the
\* default).
NResultsInputs == {Absent, Some(1)}

\* The messages offered as query of POST /history/search: "hi" and the
\* empty string.
QueryInputs == {1, 11}

\* The texts of the chat messages, as sequences of characters.
Text(m) ==
    CASE m = 1 -> <<"h", "i">>
      [] m = 2 -> <<"L", "a", "s", "t", " ", "h", "o", "u", "r", " ",
                    "t", "o", "d", "a", "y">>
      [] m = 3 -> <<"t", "o", "d", "a", "y", " ", "l", "a", "s", "t",
                    " ", "h", "o", "u", "r">>
      [] m = 4 -> <<"t", "h", "i", "s", " ", "m", "o", "r", "n", "i",
                    "n", "g", " ", "t", "o", "d", "a", "y">>
      [] m = 5 -> <<"Y", "E", "S", "T", "E", "R", "D", "A", "Y">>
      [] m = 6 -> <<"l", "a", "s", "t", " ", "2", " ", "h", "o", "u",
                    "r", "s">>
      [] m = 7 -> <<"l", "a", "s", "t", " ", "2", "4", " ", "h", "o",
                    "u", "r", "s">>
      [] m = 8 -> <<"L", "A", "S", "T", " ", "F", "E", "W", " ", "H",
                    "O", "U", "R", "S", " ", "a", "g", "o">>
      [] m = 9 -> <<"p", "a", "s", "t", " ", "h", "o", "u", "r">>
      [] m = 10 -> <<"l", "a", "s", "t", " ", " ", "h", "o", "u", "r">>
      [] m = 11 -> <<>>
      [] m = 12 -> <<"t", "h", "i", "s", " ", "m", "o", "r", "n", "i",
                    "n", "g">>

\* The messages offered to POST /chat.
Messages == {1, 2}

\* The messages offered to parse_temporal_query alone.
ParseMessages == 1..12

\* The answers of the chat model.
Replies == {"reply"}

(* ----------------------------- sequences ------------------------------ *)

Min(a, b) == IF a <= b THEN a ELSE b

Max(a, b) == IF a >= b THEN a ELSE b

\* seq[-n:] for n >= 1: the last n elements, all of them when n >= len.
LastN(seq, n) ==
    SubSeq(seq, Max(1, Len(seq) - n + 1), Len(seq))

RECURSIVE Filter(_, _)
\* [r for r in seq if keep[r]], keep being a set of records.
Filter(seq, keep) ==
    IF seq = <<>> THEN <<>>
    ELSE IF Head(seq) \in keep
         THEN <<Head(seq)>> \o Filter(Tail(seq), keep)
         ELSE Filter(Tail(seq), keep)

Range(seq) == {seq[i] : i \in 1..Len(seq)}

Ids(seq) == {seq[i].id : i \in 1..Len(seq)}

IdSeq(seq) == [i \in 1..Len(seq) |-> seq[i].id]

(* ------------------------- parse_temporal_query ----------------------- *)

UpperCase ==
    <<"A", "B", "C", "D", "E", "F", "G", "H", "I", "J", "K", "L", "M",
      "N", "O", "P", "Q", "R", "S", "T", "U", "V", "W", "X", "Y", "Z">>

LowerCase ==
    <<"a", "b", "c", "d", "e", "f", "g", "h", "i", "j", "k", "l", "m",
      "n", "o", "p", "q", "r", "s", "t", "u", "v", "w", "x", "y", "z">>

\* str.lower() on one character.
LowerChar(c) ==
    IF \E i \in 1..Len(UpperCase) : UpperCase[i] = c
    THEN LowerCase[CHOOSE i \in 1..Len(UpperCase) : UpperCase[i] = c]
    ELSE c

\* message.lower()
Lower(s) == [i \in 1..Len(s) |-> LowerChar(s[i])]

\* pattern in message_lower
Contains(pattern, s) ==
    \E i \in 0..(Len(s) - Len(pattern)) :
        \A j \in 1..Len(pattern) : s[i + j] = pattern[j]

\* temporal_patterns, in the insertion order of the dict.
temporal_patterns ==
    << [pattern |-> <<"y", "e", "s", "t", "e", "r", "d", "a", "y">>,
        hours |-> 24],
       [pattern |-> <<"l", "a", "s", "t", " ", "h", "o", "u", "r">>,
        hours |-> 1],
       [pattern |-> <<"p", "a", "s", "t", " ", "h", "o", "u", "r">>,
        hours |-> 1],
       [pattern |-> <<"l", "a", "s", "t", " ", "2", " ", "h", "o", "u", "r",
                      "s">>,
        hours |-> 2],
       [pattern |-> <<"l", "a", "s", "t", " ", "f", "e", "w", " ", "h", "o",
                      "u", "r", "s">>,
        hours |-> 3],
       [pattern |-> <<"t", "o", "d", "a", "y">>,
        hours |-> 24],
       [pattern |-> <<"l", "a", "s", "t", " ", "2", "4", " ", "h", "o", "u",
                      "r", "s">>,
        hours |-> 24],
       [pattern |-> <<"t", "h", "i", "s", " ", "m", "o", "r", "n", "i", "n",
                      "g">>,
        hours |-> 12] >>

\* The indexes of the patterns that occur in the lowered message.
Matching(message) ==
    {i \in 1..Len(temporal_patterns) :
        Contains(temporal_patterns[i].pattern, Lower(message))}

\* Mutant: the last pattern of the table that occurs wins.
FirstMatch_Last(message) ==
    CHOOSE i \in Matching(message) : \A j \in Matching(message) : i >= j

\* The first match of the loop over temporal_patterns.items().
FirstMatch(message) ==
    CHOOSE i \in Matching(message) : \A j \in Matching(message) : i <= j

\* parse_temporal_query(message): hours_ago is <<>> when is_temporal is false.
parse_temporal_query(message) ==
    IF Matching(message) = {}
    THEN [is_temporal |-> FALSE, hours_ago |-> Absent]
    ELSE [is_temporal |-> TRUE,
          hours_ago |-> Some(temporal_patterns[FirstMatch(message)].hours)]

\* temporal_info = parse_temporal_query(user_message), for every message.
temporal_info_of ==
    [m \in ParseMessages |-> parse_temporal_query(Text(m))]

(* --------------------------- collection names ------------------------- *)

\* The characters of a scope's name.
Chars(s) ==
    CASE s = "general" -> <<"g", "e", "n", "e", "r", "a", "l">>
      [] s = "minecraft" -> <<"m", "i", "n", "e", "c", "r", "a", "f", "t">>

\* "_chat_history"
Suffix == <<"_", "c", "h", "a", "t", "_", "h", "i", "s", "t", "o", "r", "y">>

\* The name of the collection the manager keeps a scope in.
CollectionName(s) == Chars(s) \o Suffix

\* The scope a game name stands for: scope names are case-normalized.
ScopeOfName(name) ==
    CHOOSE s \in Scopes \cup {None} :
        \/ s \in Scopes /\ Chars(s) = Lower(name)
        \/ s = None /\ \A t \in Scopes : Chars(t) # Lower(name)

\* name.endswith(suffix)
EndsWith(name, suffix) ==
    /\ Len(name) >= Len(suffix)
    /\ SubSeq(name, Len(name) - Len(suffix) + 1, Len(name)) = suffix

RECURSIVE Replace(_, _, _)
\* s.replace(old, new), for a non-empty old.
Replace(s, old, new) ==
    IF Len(s) < Len(old) THEN s
    ELSE IF SubSeq(s, 1, Len(old)) = old
         THEN new \o Replace(SubSeq(s, Len(old) + 1, Len(s)), old, new)
         ELSE <<Head(s)>> \o Replace(Tail(s), old, new)

IsLetter(c) ==
    \E i \in 1..Len(UpperCase) : UpperCase[i] = c \/ LowerCase[i] = c

\* str.upper() on one character.
UpperChar(c) ==
    IF \E i \in 1..Len(LowerCase) : LowerCase[i] = c
    THEN UpperCase[CHOOSE i \in 1..Len(LowerCase) : LowerCase[i] = c]
    ELSE c

\* s.title(): a letter that follows no letter is upper case, the others
\* are lower case.
Title(s) ==
    [i \in 1..Len(s) |->
        IF i = 1 \/ ~IsLetter(s[i - 1]) THEN UpperChar(s[i])
        ELSE LowerChar(s[i])]

\* collection.name.replace("_chat_history", "").replace("_", " ").title()
GameName(name) == Title(Replace(Replace(name, Suffix, <<>>), <<"_">>, <<" ">>))

\* game_name, for the collection of every scope.
game_name_of == [s \in Scopes |-> GameName(CollectionName(s))]

\* The scope get_stats(game_name) reads, for the collection of every scope.
stats_scope_of == [s \in Scopes |-> ScopeOfName(game_name_of[s])]

(* -------------------------------- state ------------------------------- *)

VARIABLES
    max_history,  \* chat_history_manager.max_history
    log,          \* scope -> the ordered log of its records, oldest first
    index,        \* scope -> the record ids held by the vector index
    collections,  \* the scopes the persistent store holds a collection of
    clock,        \* the manager's clock, in hours
    nextId,       \* the id of the next record
    req,          \* coroutine -> the request it serves and its locals
    running,      \* the coroutine that holds the event loop, or None
    written,      \* history: scope -> ids inserted since it was last empty
    stable        \* history: scope -> max_history unchanged since then

vars ==
    <<max_history, log, index, collections, clock, nextId, req, running,
      written, stable>>

store == <<log, index, collections>>

history == <<written, stable>>

\* A coroutine that serves no request.
Idle ==
    [pc |-> "idle", op |-> "none", game |-> DefaultGame, msg |-> 0,
     limit |-> Absent, hours |-> Absent, out |-> <<>>, seenLog |-> {},
     seenIdx |-> {},
     stats |-> [total_messages |-> 0, oldest |-> Absent, newest |-> Absent],
     status |-> 0, rid |-> 0,
     resp |-> [kind |-> "none", quotes |-> <<>>], temporal |-> FALSE,
     arg |-> 0, games |-> {}, include_history |-> FALSE,
     prompt |-> [augmented |-> FALSE, context |-> <<>>, question |-> 0]]

(* ---------------------- the manager (from its contract) ---------------- *)

\* The re-scan of a scope after a restart: a record stays when the log and
\* the index both hold it, and the oldest records beyond the bound go.
RecoverLog(lg, ix, bound) ==
    LastN(Filter(lg, {r \in Range(lg) : r.id \in ix}), bound)

\* The records of the log within the last `hours` hours of `now`.
InWindow(lg, hours, now) ==
    IF hours = Absent THEN lg
    ELSE Filter(lg, {r \in Range(lg) : r.ts >= now - hours[1]})

\* get_recent_history(game, limit, hours_ago) at clock value `now`.
get_recent_history(lg, limit, hours, now) ==
    IF limit = Absent THEN InWindow(lg, hours, now)
    ELSE LastN(InWindow(lg, hours, now), limit[1])

\* get_history_context(game, limit): the exchanges the block summarises,
\* empty when the scope has no history.
get_history_context(lg, limit) == LastN(lg, limit)

\* get_stats(game)
get_stats(lg) ==
    [total_messages |-> Len(lg),
     oldest |-> IF lg = <<>> THEN Absent ELSE Some(lg[1].ts),
     newest |-> IF lg = <<>> THEN Absent ELSE Some(lg[Len(lg)].ts)]

\* The similarity of a record to a query: the same text scores highest.
Similarity(query, r) == IF r.user = query THEN 2 ELSE 1

\* r comes before q in a search result.
Closer(query, r, q) ==
    \/ Similarity(query, r) > Similarity(query, q)
    \/ /\ Similarity(query, r) = Similarity(query, q)
       /\ \/ r.ts > q.ts
          \/ r.ts = q.ts /\ r.id > q.id

RECURSIVE TopK(_, _, _)
TopK(query, recs, k) ==
    IF k = 0 \/ recs = {} THEN <<>>
    ELSE LET best == CHOOSE r \in recs :
                        \A q \in recs \ {r} : Closer(query, r, q)
         IN  <<best>> \o TopK(query, recs \ {best}, k - 1)

\* search_history(game, query, n_results): the vector index names the
\* nearest records, the log supplies them.
search_history(lg, ix, query, n) ==
    TopK(query, {r \in Range(lg) : r.id \in ix}, n)

\* The scope holds more records than the bound allows.
NeedsEviction(lg) == Len(lg) > max_history

(* ----------------------------- event loop ----------------------------- *)

\* The places where a handler is not on the event loop: before it starts,
\* and at `await chat_with_gemini(...)` until the loop resumes it.
Suspended == {"idle", "await", "ready"}

\* Mutant: the handlers are plain `def`s, run on the thread pool: none of
\* them keeps the others from running.
NextRunning_Threadpool(p, pc) == None

\* Mutant: clear_history is awaited between its two steps.
NextRunning_AwaitInClear(p, pc) ==
    IF pc \in Suspended \cup {"clear_log"} THEN None ELSE p

\* Mutant: add_message is awaited between its write of the log and its
\* write of the index.
NextRunning_AwaitInAdd(p, pc) ==
    IF pc \in Suspended \cup {"add_index"} THEN None ELSE p

\* Who holds the event loop after coroutine p has moved to `pc`: an
\* `async def` handler keeps it until it awaits or returns.
NextRunning(p, pc) == IF pc \in Suspended THEN None ELSE p

\* The event loop can run a step of p.
CanRun(p) == running \in {None, p}

\* Chats that will still create a record (each takes one record id).
PendingChats == {p \in Procs : req[p].op = "chat" /\ req[p].rid = 0}

(* ------------------------------ route: chat --------------------------- *)

\* game = getattr(message, 'game', 'general')
ChatGame(g) == IF g = Absent THEN DefaultGame ELSE g[1]

\* response_text of a temporal query: the "no history" sentence, or the
\* summary, which quotes the user_message and the start of the
\* assistant_response of every record of the history read.
TemporalResponse(hist) ==
    IF hist = <<>> THEN [kind |-> "nohist", quotes |-> <<>>]
    ELSE [kind |-> "summary", quotes |-> IdSeq(hist)]

\* response_text of the model's answer.
ResponseText(response) == [kind |-> response, quotes |-> <<>>]

\* history_limit = getattr(message, 'history_limit', 5)
HistoryLimit(h) == IF h = Absent THEN DefaultHistoryLimit ELSE h[1]

\* Mutant: the history block is prepended whatever the context is.
EnhancedMessage_Always(history_context, user_message) ==
    [augmented |-> TRUE, context |-> history_context,
     question |-> user_message]

\* enhanced_message: the user's message, with the history block before it
\* when get_history_context returned one.
EnhancedMessage(history_context, user_message) ==
    IF history_context # <<>>
    THEN [augmented |-> TRUE, context |-> history_context,
          question |-> user_message]
    ELSE [augmented |-> FALSE, context |-> <<>>, question |-> user_message]

\* chat(), up to its first suspension: the whole temporal branch up to the
\* call of add_message, or the context lookup and the call of the model.
ChatStart(p, g, m, include_history, history_limit) ==
    LET game == ChatGame(g)
        temporal_info == temporal_info_of[m]
        lg == log[game]
        reads == temporal_info.is_temporal \/ include_history
        pc == IF temporal_info.is_temporal THEN "add_log" ELSE "call"
        history_context ==
            IF include_history
            THEN get_history_context(lg, HistoryLimit(history_limit))
            ELSE <<>>
    IN  /\ req[p].pc = "idle"
        /\ CanRun(p)
        /\ nextId + Cardinality(PendingChats) <= MaxRecords
        /\ req' = [req EXCEPT ![p] =
              [Idle EXCEPT
                  !.pc = pc, !.op = "chat", !.game = game, !.msg = m,
                  !.temporal = temporal_info.is_temporal,
                  !.hours = temporal_info.hours_ago,
                  !.out =
                      IF temporal_info.is_temporal
                      THEN get_recent_history(lg, Absent,
                                              temporal_info.hours_ago, clock)
                      ELSE history_context,
                  !.include_history =
                      ~temporal_info.is_temporal /\ include_history,
                  !.limit =
                      IF ~temporal_info.is_temporal /\ include_history
                      THEN Some(HistoryLimit(history_limit))
                      ELSE Absent,
                  !.prompt =
                      IF temporal_info.is_temporal THEN Idle.prompt
                      ELSE EnhancedMessage(history_context, m),
                  !.seenLog = IF reads THEN Ids(lg) ELSE {},
                  !.seenIdx = IF reads THEN index[game] ELSE {},
                  !.resp =
                      IF temporal_info.is_temporal
                      THEN TemporalResponse(
                               get_recent_history(lg, Absent,
                                   temporal_info.hours_ago, clock))
                      ELSE Idle.resp]]
        /\ running' = NextRunning(p, pc)
        /\ UNCHANGED <<max_history, store, clock, nextId, history>>

\* response = await chat_with_gemini(enhanced_message, image_data): the
\* request goes out and the handler leaves the event loop.
ChatCall(p) ==
    /\ req[p].pc = "call"
    /\ CanRun(p)
    /\ req' = [req EXCEPT
          ![p].pc = "await", ![p].out = <<>>,
          ![p].seenLog = {}, ![p].seenIdx = {},
          ![p].include_history = FALSE, ![p].limit = Absent,
          ![p].prompt = Idle.prompt]
    /\ running' = NextRunning(p, "await")
    /\ UNCHANGED <<max_history, store, clock, nextId, history>>

\* chat_with_gemini returns: the awaiting coroutine becomes ready to run.
GeminiReply(p, r) ==
    /\ req[p].pc = "await"
    /\ req' = [req EXCEPT ![p].pc = "ready", ![p].resp = ResponseText(r)]
    /\ UNCHANGED <<max_history, store, clock, nextId, running, history>>

\* The caller abandons the request while it awaits the model.
Abandon(p) ==
    /\ req[p].pc = "await"
    /\ req' = [req EXCEPT ![p] = Idle]
    /\ UNCHANGED <<max_history, store, clock, nextId, running, history>>

\* Mutant: the response is returned without the exchange being stored.
ChatResume_NoStore(p) ==
    /\ req[p].pc = "ready"
    /\ CanRun(p)
    /\ req' = [req EXCEPT ![p].pc = "add_done", ![p].status = 200]
    /\ running' = NextRunning(p, "add_done")
    /\ UNCHANGED <<max_history, store, clock, nextId, history>>

\* The event loop resumes chat() after the await, on its way to
\* add_message.
ChatResume(p) ==
    /\ req[p].pc = "ready"
    /\ CanRun(p)
    /\ req' = [req EXCEPT ![p].pc = "add_log"]
    /\ running' = NextRunning(p, "add_log")
    /\ UNCHANGED <<max_history, store, clock, nextId, history>>

\* Mutant: the exchange is stored under the default game.
AddGame_Default(p) == DefaultGame

\* add_message(game=game, ...): the scope the exchange is stored in.
AddGame(p) == req[p].game

\* The text of message m behind a history block ("...Current question: m"):
\* a text no caller has sent.
AugmentedText(m) == 0 - m

\* Mutant: the prompt that went to the model is stored as user_message.
AddUserMessage_Enhanced(p) == AugmentedText(req[p].msg)

\* add_message(..., user_message=user_message, ...)
AddUserMessage(p) == req[p].msg

\* add_message, first step: the record is appended to the log.
AddLog(p) ==
    LET g == AddGame(p)
        rec == [id |-> nextId, scope |-> g, ts |-> clock,
                user |-> AddUserMessage(p), resp |-> req[p].resp]
    IN  /\ req[p].pc = "add_log"
        /\ CanRun(p)
        /\ log' = [log EXCEPT ![g] = Append(@, rec)]
        /\ collections' = collections \cup {g}
        /\ nextId' = nextId + 1
        /\ written' = [written EXCEPT ![g] = Append(@, rec.id)]
        /\ req' = [req EXCEPT ![p].pc = "add_index", ![p].rid = rec.id]
        /\ running' = NextRunning(p, "add_index")
        /\ UNCHANGED <<max_history, index, clock, stable>>

\* The step after a write of add_message: evict while over the bound.
AfterWrite(lg) == IF NeedsEviction(lg) THEN "evict_index" ELSE "add_done"

\* add_message, second step: the record enters the vector index.
AddIndex(p) ==
    LET g == AddGame(p)
        pc == AfterWrite(log[g])
    IN  /\ req[p].pc = "add_index"
        /\ CanRun(p)
        /\ index' = [index EXCEPT ![g] = @ \cup {req[p].rid}]
        /\ req' = [req EXCEPT
              ![p].pc = pc,
              ![p].status = IF pc = "add_done" THEN 200 ELSE 0]
        /\ running' = NextRunning(p, pc)
        /\ UNCHANGED <<max_history, log, collections, clock, nextId, history>>

\* Eviction: the oldest record leaves the vector index ...
EvictIndex(p) ==
    LET g == AddGame(p)
    IN  /\ req[p].pc = "evict_index"
        /\ CanRun(p)
        /\ log[g] # <<>>
        /\ index' = [index EXCEPT ![g] = @ \ {Head(log[g]).id}]
        /\ req' = [req EXCEPT ![p].pc = "evict_log"]
        /\ running' = NextRunning(p, "evict_log")
        /\ UNCHANGED <<max_history, log, collections, clock, nextId, history>>

\* ... and then the log, and the count is checked again.
EvictLog(p) ==
    LET g == AddGame(p)
        pc == AfterWrite(Tail(log[g]))
    IN  /\ req[p].pc = "evict_log"
        /\ CanRun(p)
        /\ log[g] # <<>>
        /\ log' = [log EXCEPT ![g] = Tail(@)]
        /\ req' = [req EXCEPT
              ![p].pc = pc,
              ![p].status = IF pc = "add_done" THEN 200 ELSE 0]
        /\ running' = NextRunning(p, pc)
        /\ UNCHANGED <<max_history, index, collections, clock, nextId,
                       history>>

(* --------------------------- route: history --------------------------- *)

\* Mutant: the route does not hand hours_ago over.
HistoryArgs_NoHours(limit, hours_ago) == [limit |-> limit, hours |-> Absent]

\* get_recent_history(game=game, limit=limit, hours_ago=hours_ago): the
\* arguments the route hands over.
HistoryArgs(limit, hours_ago) == [limit |-> limit, hours |-> hours_ago]

\* GET /history/{game}
get_chat_history(p, game, limit, hours_ago) ==
    LET a == HistoryArgs(limit, hours_ago)
        lg == log[game]
    IN  /\ req[p].pc = "idle"
        /\ CanRun(p)
        /\ req' = [req EXCEPT ![p] =
              [Idle EXCEPT
                  !.pc = "read_done", !.op = "history", !.game = game,
                  !.limit = limit, !.hours = hours_ago,
                  !.out = get_recent_history(lg, a.limit, a.hours, clock),
                  !.seenLog = Ids(lg), !.seenIdx = index[game],
                  !.status = 200]]
        /\ running' = NextRunning(p, "read_done")
        /\ UNCHANGED <<max_history, store, clock, nextId, history>>

\* Mutant: the route does not hand n_results over.
SearchArgs_DefaultN(game, query, n_results) ==
    [game |-> game, query |-> query, n |-> DefaultNResults]

\* search_history(game=game, query=query, n_results=n_results): the
\* arguments the route hands over.
SearchArgs(game, query, n_results) ==
    [game |-> game, query |-> query,
     n |-> IF n_results = Absent THEN DefaultNResults ELSE n_results[1]]

\* POST /history/search
search_chat_history(p, game, query, n_results) ==
    LET a == SearchArgs(game, query, n_results)
        lg == log[a.game]
    IN  /\ req[p].pc = "idle"
        /\ CanRun(p)
        /\ req' = [req EXCEPT ![p] =
              [Idle EXCEPT
                  !.pc = "read_done", !.op = "search", !.game = game,
                  !.msg = query,
                  !.arg = IF n_results = Absent THEN DefaultNResults
                          ELSE n_results[1],
                  !.out = search_history(lg, index[a.game], a.query, a.n),
                  !.seenLog = Ids(lg), !.seenIdx = index[a.game],
                  !.status = 200]]
        /\ running' = NextRunning(p, "read_done")
        /\ UNCHANGED <<max_history, store, clock, nextId, history>>

\* GET /history/{game}/stats
get_chat_stats(p, game) ==
    LET lg == log[game]
    IN  /\ req[p].pc = "idle"
        /\ CanRun(p)
        /\ req' = [req EXCEPT ![p] =
              [Idle EXCEPT
                  !.pc = "read_done", !.op = "stats", !.game = game,
                  !.stats = get_stats(lg),
                  !.seenLog = Ids(lg), !.seenIdx = index[game],
                  !.status = 200]]
        /\ running' = NextRunning(p, "read_done")
        /\ UNCHANGED <<max_history, store, clock, nextId, history>>

\* The collections the loop of list_games_with_history appends an entry
\* for: those whose name ends with "_chat_history".
ListedCollections ==
    {s \in collections : EndsWith(CollectionName(s), Suffix)}

\* GET /history/games
list_games_with_history(p) ==
    /\ req[p].pc = "idle"
    /\ CanRun(p)
    /\ req' = [req EXCEPT ![p] =
          [Idle EXCEPT
              !.pc = "read_done", !.op = "games",
              !.games =
                  {[game |-> game_name_of[s],
                    total_messages |->
                        IF stats_scope_of[s] = None THEN 0
                        ELSE get_stats(log[stats_scope_of[s]]).total_messages]
                   : s \in ListedCollections},
              !.status = 200]]
    /\ running' = NextRunning(p, "read_done")
    /\ UNCHANGED <<max_history, store, clock, nextId, history>>

\* Mutant: the route clears the default game.
ClearGame_Default(game) == DefaultGame

\* chat_history_manager.clear_history(game): the scope the route clears.
ClearGame(game) == game

\* DELETE /history/{game}: clear_history first drops the scope's entries of
\* the vector index ...
clear_chat_history(p, game) ==
    /\ req[p].pc = "idle"
    /\ CanRun(p)
    /\ req' = [req EXCEPT ![p] =
          [Idle EXCEPT !.pc = "clear_log", !.op = "clear", !.game = game]]
    /\ index' = [index EXCEPT ![ClearGame(game)] = {}]
    /\ running' = NextRunning(p, "clear_log")
    /\ UNCHANGED <<max_history, log, collections, clock, nextId, history>>

\* ... and then its log.
ClearLog(p) ==
    LET g == ClearGame(req[p].game)
    IN  /\ req[p].pc = "clear_log"
        /\ CanRun(p)
        /\ log' = [log EXCEPT ![g] = <<>>]
        /\ written' = [written EXCEPT ![g] = <<>>]
        /\ stable' = [stable EXCEPT ![g] = TRUE]
        /\ req' = [req EXCEPT ![p].pc = "clear_done", ![p].status = 200]
        /\ running' = NextRunning(p, "clear_done")
        /\ UNCHANGED <<max_history, index, collections, clock, nextId>>

(* --------------------------- route: settings -------------------------- *)

\* Mutant: the lower bound is not checked.
ValidMaxHistory_NoLowerBound(m) == ~(m > MaxMaxHistory)

\* Mutant: the upper bound is off by one.
ValidMaxHistory_UpperOffByOne(m) ==
    ~(m < MinMaxHistory \/ m > MaxMaxHistory + 1)

\* not (max_history < 1 or max_history > 100)
ValidMaxHistory(m) == ~(m < MinMaxHistory \/ m > MaxMaxHistory)

\* Mutant: an accepted update trims every scope to the new bound.
LogAfterSettings_Trim(m) ==
    IF m < MinMaxHistory \/ m > MaxMaxHistory THEN log
    ELSE [s \in Scopes |-> LastN(log[s], m)]

\* The logs after POST /settings/history: the handler assigns max_history
\* and calls nothing of the manager.
LogAfterSettings(m) == log

\* POST /settings/history
update_history_settings(p, m) ==
    /\ req[p].pc = "idle"
    /\ CanRun(p)
    /\ req' = [req EXCEPT ![p] =
          [Idle EXCEPT
              !.pc = "set_done", !.op = "settings", !.arg = m,
              !.status = IF ValidMaxHistory(m) THEN 200 ELSE 400]]
    /\ max_history' = IF ValidMaxHistory(m) THEN m ELSE max_history
    /\ stable' = [s \in Scopes |->
                     stable[s] /\ (max_history' = max_history
                                   \/ written[s] = <<>>)]
    /\ log' = LogAfterSettings(m)
    /\ running' = NextRunning(p, "set_done")
    /\ UNCHANGED <<index, collections, clock, nextId, written>>

(* ------------------------- return, restart, time ---------------------- *)

Finished == {"add_done", "read_done", "clear_done", "set_done", "failed"}

\* The handler returns its response (or raises its HTTPException).
Return(p) ==
    /\ req[p].pc \in Finished
    /\ CanRun(p)
    /\ req' = [req EXCEPT ![p] = Idle]
    /\ running' = NextRunning(p, "idle")
    /\ UNCHANGED <<max_history, store, clock, nextId, history>>

\* The process dies and is started again: the requests in flight are lost,
\* the module is imported anew (max_history=30), and the manager re-scans
\* the persisted scopes.
Restart ==
    /\ req' = [p \in Procs |-> Idle]
    /\ running' = None
    /\ max_history' = InitialMaxHistory
    /\ log' = [s \in Scopes |->
                  RecoverLog(log[s], index[s], InitialMaxHistory)]
    /\ index' = [s \in Scopes |-> Ids(log'[s])]
    /\ stable' = [s \in Scopes |-> stable[s] /\ written[s] = <<>>]
    /\ UNCHANGED <<collections, clock, nextId, written>>

\* An hour passes.
Tick ==
    /\ running = None
    /\ clock < MaxClock
    /\ clock' = clock + 1
    /\ UNCHANGED <<max_history, store, nextId, req, running, history>>

(* ---------------------------- specification --------------------------- *)

Init ==
    /\ max_history = InitialMaxHistory
    /\ log = [s \in Scopes |-> <<>>]
    /\ index = [s \in Scopes |-> {}]
    /\ collections = {}
    /\ clock = 0
    /\ nextId = 1
    /\ req = [p \in Procs |-> Idle]
    /\ running = None
    /\ written = [s \in Scopes |-> <<>>]
    /\ stable = [s \in Scopes |-> TRUE]

Next ==
    \/ \E p \in Procs :
          \/ \E g \in {Absent} \cup {Some(s) : s \in Scopes},
                m \in Messages, include_history \in BOOLEAN,
                history_limit \in HistoryLimitInputs :
                ChatStart(p, g, m, include_history, history_limit)
          \/ ChatCall(p)
          \/ \E r \in Replies : GeminiReply(p, r)
          \/ Abandon(p)
          \/ ChatResume(p)
          \/ AddLog(p)
          \/ AddIndex(p)
          \/ EvictIndex(p)
          \/ EvictLog(p)
          \/ Return(p)
    \/ \E p \in PlainProcs :
          \/ \E game \in Scopes, limit \in LimitInputs,
                hours_ago \in HoursInputs :
                get_chat_history(p, game, limit, hours_ago)
          \/ \E game \in Scopes, query \in QueryInputs,
                n_results \in NResultsInputs :
                search_chat_history(p, game, query, n_results)
          \/ \E game \in Scopes : get_chat_stats(p, game)
          \/ list_games_with_history(p)
          \/ \E game \in Scopes : clear_chat_history(p, game)
          \/ ClearLog(p)
          \/ \E m \in MaxHistoryInputs : update_history_settings(p, m)
    \/ Restart
    \/ Tick

Spec == Init /\ [][Next]_vars

(* ------------------- chat() over a store that can fail ---------------- *)

\* The places of add_message at which the next thing is a call of the
\* persistent store.
StoreCalls == {"add_log", "add_index", "evict_index", "evict_log"}

\* Mutant: the error is swallowed and the response is returned.
OnException_Swallow(p) == [pc |-> "add_done", status |-> 200]

\* except Exception as e: raise HTTPException(status_code=500, ...)
OnException(p) == [pc |-> "failed", status |-> 500]

\* A call of the persistent store fails: the manager raises StorageError out
\* of add_message, into the handler's `except Exception`.
StoreFails(p) ==
    /\ req[p].pc \in StoreCalls
    /\ CanRun(p)
    /\ req' = [req EXCEPT
          ![p].pc = OnException(p).pc, ![p].status = OnException(p).status]
    /\ running' = NextRunning(p, OnException(p).pc)
    /\ UNCHANGED <<max_history, store, clock, nextId, history>>

\* A call of the persistent store does not return: add_message is called
\* without a timeout, so the handler stays in it, on the event loop.
StoreStalls(p) ==
    /\ req[p].pc \in StoreCalls
    /\ CanRun(p)
    /\ req' = [req EXCEPT ![p].pc = "stalled"]
    /\ running' = NextRunning(p, "stalled")
    /\ UNCHANGED <<max_history, store, clock, nextId, history>>

NextStore ==
    \/ \E p \in Procs :
          \/ \E g \in {Absent} \cup {Some(s) : s \in Scopes},
                m \in Messages, include_history \in BOOLEAN,
                history_limit \in HistoryLimitInputs :
                ChatStart(p, g, m, include_history, history_limit)
          \/ ChatCall(p)
          \/ \E r \in Replies : GeminiReply(p, r)
          \/ ChatResume(p)
          \/ AddLog(p)
          \/ AddIndex(p)
          \/ EvictIndex(p)
          \/ EvictLog(p)
          \/ StoreFails(p)
          \/ StoreStalls(p)
          \/ Return(p)
    \/ \E p \in PlainProcs :
          \E m \in MaxHistoryInputs : update_history_settings(p, m)

SpecStore == Init /\ [][NextStore]_vars

\* The event loop runs what can run, the chat model answers, and a store
\* call that returns does so in finite time.
SpecStoreFair == SpecStore /\ WF_vars(NextStore)

(* ---------------- two chats in flight on the same scope --------------- *)

\* The values of max_history the overlapping chats run under.
OverlapMaxHistory == {1, 2, InitialMaxHistory}

\* chat() for message "hi" on scope g, at `await chat_with_gemini(...)`:
\* the context is read and the request to the model is out.
Awaiting(g) ==
    [Idle EXCEPT !.pc = "await", !.op = "chat", !.game = g, !.msg = 1]

\* A log of k earlier exchanges of scope g.
SeedLog(g, k) ==
    [i \in 1..k |->
        [id |-> i, scope |-> g, ts |-> 0, user |-> 1,
         resp |-> ResponseText("reply")]]

\* Both requests have read the context of one scope, which holds k earlier
\* exchanges, and both wait for the model.
InitOverlap ==
    \E g \in Scopes, m \in OverlapMaxHistory,
       k \in 0..(MaxRecords - Cardinality(Procs)) :
        /\ k <= m
        /\ max_history = m
        /\ log = [s \in Scopes |-> IF s = g THEN SeedLog(g, k) ELSE <<>>]
        /\ index = [s \in Scopes |-> IF s = g THEN 1..k ELSE {}]
        /\ collections = IF k = 0 THEN {} ELSE {g}
        /\ clock = 0
        /\ nextId = k + 1
        /\ req = [p \in Procs |-> Awaiting(g)]
        /\ running = None
        /\ written = [s \in Scopes |-> IF s = g THEN [i \in 1..k |-> i]
                                       ELSE <<>>]
        /\ stable = [s \in Scopes |-> TRUE]

NextOverlap ==
    \E p \in Procs :
        \/ \E r \in Replies : GeminiReply(p, r)
        \/ ChatResume(p)
        \/ AddLog(p)
        \/ AddIndex(p)
        \/ EvictIndex(p)
        \/ EvictLog(p)
        \/ Return(p)

SpecOverlap == InitOverlap /\ [][NextOverlap]_vars

(* ------------------ parse_temporal_query on its own ------------------- *)

\* temporal_info = parse_temporal_query(user_message), and nothing else.
ParseQuery(p, m) ==
    /\ req[p].pc = "idle"
    /\ req' = [req EXCEPT ![p] =
          [Idle EXCEPT
              !.pc = "parsed", !.op = "parse", !.msg = m,
              !.temporal = temporal_info_of[m].is_temporal,
              !.hours = temporal_info_of[m].hours_ago]]
    /\ UNCHANGED <<max_history, store, clock, nextId, running, history>>

\* The result is dropped.
ParseDone(p) ==
    /\ req[p].pc = "parsed"
    /\ req' = [req EXCEPT ![p] = Idle]
    /\ UNCHANGED <<max_history, store, clock, nextId, running, history>>

NextParse ==
    \E p \in Procs :
        \/ \E m \in ParseMessages : ParseQuery(p, m)
        \/ ParseDone(p)

SpecParse == Init /\ [][NextParse]_vars

(* ------------------------------- claims ------------------------------ *)

\* The places of a handler inside a write of the manager: between the first
\* and the last step of add_message (eviction included) or of clear_history.
Writing == {"add_index", "evict_index", "evict_log", "clear_log"}

\* A write is under way on scope s.
Busy(s) == \E p \in Procs : req[p].pc \in Writing /\ req[p].game = s

\* An add_message of p has just returned to its handler.
Added(p) == req[p].pc = "add_done"

\* p holds what a read of its scope has just returned.
Observed(p) ==
    \/ req[p].pc \in {"read_done", "call"}
    \/ req[p].pc = "add_log" /\ req[p].temporal

\* C1, as stated: whenever no write is under way on a scope, the scope
\* holds at most max_history records, whatever adds, clears and accepted
\* updates of max_history came before.
C1_BoundAlways ==
    \A s \in Scopes : ~Busy(s) => Len(log[s]) <= max_history

\* C1, amended: a scope holds at most max_history records when an
\* add_message on it returns, and whenever no write is under way on it and
\* max_history has not changed since the scope was last empty.
C1_BoundAfterAdd ==
    /\ \A p \in Procs : Added(p) => Len(log[req[p].game]) <= max_history
    /\ \A s \in Scopes :
          ~Busy(s) /\ stable[s] => Len(log[s]) <= max_history

\* C1 witness: an add_message has returned on a full scope after evicting.
C1_Witness ==
    \E p \in Procs :
        /\ Added(p)
        /\ Len(log[req[p].game]) = max_history
        /\ Len(written[req[p].game]) > max_history

\* C2: with max_history = M unchanged since the scope was empty, the scope
\* holds exactly the last min(n, M) of the n records inserted, in insertion
\* order, and an add_message returns with its own record as the newest one.
C2_Fifo ==
    /\ \A s \in Scopes :
          ~Busy(s) /\ stable[s] =>
              IdSeq(log[s]) = LastN(written[s], max_history)
    /\ \A p \in Procs :
          Added(p) =>
              /\ log[req[p].game] # <<>>
              /\ log[req[p].game][Len(log[req[p].game])].id = req[p].rid

\* C2 witness: M + 1 records went into an empty scope with M = 2 unchanged,
\* and the last add_message has returned.
C2_Witness ==
    \E p \in Procs :
        /\ Added(p)
        /\ stable[req[p].game]
        /\ max_history = 2
        /\ Len(written[req[p].game]) = max_history + 1
        /\ Len(log[req[p].game]) = max_history

\* The step in which POST /settings/history runs for p.
SettingsStep(p) == req[p].pc = "idle" /\ req'[p].pc = "set_done"

\* C3: a value outside [1,100] is rejected and leaves max_history as it
\* was, a value inside is accepted and becomes max_history; max_history is
\* within [1,100] in every reachable state.
C3_Validation ==
    /\ [](max_history \in MinMaxHistory..MaxMaxHistory)
    /\ [][\A p \in Procs :
             SettingsStep(p) =>
                 IF req'[p].arg \in MinMaxHistory..MaxMaxHistory
                 THEN max_history' = req'[p].arg /\ req'[p].status = 200
                 ELSE max_history' = max_history /\ req'[p].status = 400]_vars

\* C3 witness: 101 was rejected while max_history was 2, and 2 stays.
C3_Witness ==
    \E p \in Procs :
        /\ req[p].pc = "set_done"
        /\ req[p].arg = MaxMaxHistory + 1
        /\ req[p].status = 400
        /\ max_history = 2

\* C4: an update of max_history changes no log and no index; an
\* add_message returns only once its scope is within the bound, goes on
\* evicting while it is over, and each eviction removes the oldest record.
C4_NoRetroactiveTrim ==
    [][\A p \in Procs :
          /\ SettingsStep(p) => log' = log /\ index' = index
          /\ req[p].pc \in {"add_index", "evict_log"}
             /\ req'[p].pc \in {"add_done", "evict_index"} =>
                 /\ req'[p].pc = "add_done" <=>
                        Len(log'[req[p].game]) <= max_history'
                 /\ req[p].pc = "evict_log" =>
                        log'[req[p].game] = Tail(log[req[p].game])]_vars

\* C4 witness: max_history was lowered to 1 under a scope of two records,
\* and the next add_message on it has evicted one record and evicts on.
C4_Witness ==
    \E p \in Procs :
        /\ req[p].pc = "evict_index"
        /\ max_history = 1
        /\ Len(written[req[p].game]) = 3
        /\ IdSeq(log[req[p].game]) = LastN(written[req[p].game], 2)

\* The step is a restart of the process.
RestartStep ==
    /\ \A p \in Procs : req'[p] = Idle
    /\ max_history' = InitialMaxHistory

\* C5: a step changes the log or the index of a scope only when the handler
\* on the event loop serves a request for that scope (or a restart re-scans
\* a scope whose write it interrupted); every record of a scope's log was
\* written to that scope, and every record a read returns belongs to the
\* scope that was asked for.
C5_ScopeIsolation ==
    /\ [](\A s \in Scopes : \A r \in Range(log[s]) : r.scope = s)
    /\ [](\A p \in Procs :
             Observed(p) => \A r \in Range(req[p].out) : r.scope = req[p].game)
    /\ [][\A s \in Scopes :
             log'[s] # log[s] \/ index'[s] # index[s] =>
                 \/ running \in Procs /\ req[running].game = s
                 \/ \E p \in Procs :
                        req[p].pc = "idle" /\ req'[p].pc = "clear_log"
                        /\ req'[p].game = s
                 \/ RestartStep /\ Busy(s)]_vars

\* C5 witness: both scopes hold records and a read of one has returned some.
C5_Witness ==
    \E p \in Procs :
        /\ req[p].pc = "read_done"
        /\ req[p].out # <<>>
        /\ \A s \in Scopes : log[s] # <<>>

\* C6: clear_history succeeds whatever the scope holds, and when it has
\* returned the scope has no record and no index entry, get_stats reports
\* zero messages and get_recent_history returns the empty sequence; on a
\* scope that holds nothing, its steps change nothing.
C6_ClearIdempotent ==
    /\ [](\A p \in Procs :
             req[p].pc = "clear_done" =>
                 /\ req[p].status = 200
                 /\ log[req[p].game] = <<>>
                 /\ index[req[p].game] = {}
                 /\ get_stats(log[req[p].game]).total_messages = 0
                 /\ get_recent_history(log[req[p].game], Absent, Absent,
                                       clock) = <<>>)
    /\ [][\A p \in Procs :
             /\ req[p].pc \in {"idle", "clear_log"}
             /\ req'[p].pc \in {"clear_log", "clear_done"}
             /\ req'[p].pc # req[p].pc
             /\ log[req'[p].game] = <<>>
             /\ index[req'[p].game] = {}
             => log' = log /\ index' = index]_vars

\* C6 witness: a clear of a scope that holds nothing (never used, or
\* cleared before) has returned, while records exist elsewhere.
C6_Witness ==
    \E p \in Procs :
        /\ req[p].pc = "clear_done"
        /\ req[p].status = 200
        /\ nextId > 1
        /\ \A q \in Procs : q # p => req[q].pc = "idle"
        /\ \A s \in Scopes : s # req[p].game => Len(log[s]) = nextId - 1

\* The records of p's scope within p's window at the current clock.
Window(p) ==
    {r \in Range(log[req[p].game]) :
        req[p].hours = Absent \/ r.ts >= clock - req[p].hours[1]}

\* p holds the result of get_recent_history: GET /history/{game}, or the
\* temporal branch of chat().
GotHistory(p) ==
    \/ req[p].pc = "read_done" /\ req[p].op = "history"
    \/ req[p].pc = "add_log" /\ req[p].temporal

\* C7: get_recent_history returns, oldest first, records of the scope that
\* lie within the last hours_ago hours of the clock at the query; with a
\* limit it returns min(limit, number of records in the window) of them,
\* and they are the most recent ones of the window.
C7_RecentHistory ==
    \A p \in Procs :
        GotHistory(p) =>
            LET out == req[p].out
            IN  /\ Range(out) \subseteq Window(p)
                /\ \A i, j \in 1..Len(out) :
                      i < j => out[i].id < out[j].id /\ out[i].ts <= out[j].ts
                /\ Len(out) =
                      IF req[p].limit = Absent
                      THEN Cardinality(Window(p))
                      ELSE Min(req[p].limit[1], Cardinality(Window(p)))
                /\ \A r \in Window(p) \ Range(out), q \in Range(out) :
                      r.id < q.id

\* C7 witness: a query with hours_ago = 1 and limit = 1 at a clock value at
\* which one record has left the window and two are still within it.
C7_Witness ==
    \E p \in Procs :
        /\ req[p].pc = "read_done" /\ req[p].op = "history"
        /\ req[p].hours = Some(1) /\ req[p].limit = Some(1)
        /\ Len(req[p].out) = 1
        /\ Cardinality(Window(p)) = 2
        /\ Range(log[req[p].game]) \ Window(p) # {}

\* No two handlers are inside the manager on the same scope when one of
\* them writes.
SameScopeExclusion ==
    \A p, q \in Procs :
        /\ p # q
        /\ req[p].pc \in Writing
        /\ req[q].pc \in Writing \/ Observed(q)
        => req[p].game # req[q].game

\* A handler that is ready to go on to a write of one scope is not kept
\* waiting by a write that is under way on another scope.
CrossScopeParallel ==
    \A p, q \in Procs :
        /\ p # q
        /\ req[p].pc \in Writing
        /\ req[q].pc = "ready"
        /\ req[p].game # req[q].game
        => CanRun(q)

\* C8: operations on the same scope exclude one another when one of them
\* writes, and operations on different scopes never block one another.
C8_PerScopeExclusion == SameScopeExclusion /\ CrossScopeParallel

\* C9: what a read of a scope returns was taken from a state in which the
\* log and the index hold the same records (all of them or, after a clear,
\* none), and no clear of that scope is half done when the read returns.
C9_AtomicClear ==
    \A p \in Procs :
        Observed(p) =>
            /\ req[p].seenLog = req[p].seenIdx
            /\ \A q \in Procs :
                  q # p /\ req[q].pc = "clear_log" =>
                      req[q].game # req[p].game

\* C9 witness: a clear of a scope is half done (index dropped, log still
\* there) while a chat request that read the scope is in flight.
C9_Witness ==
    \E p, q \in Procs :
        /\ req[p].pc = "clear_log"
        /\ req[q].pc \in {"await", "ready"}
        /\ req[q].game = req[p].game
        /\ log[req[p].game] # <<>>
        /\ index[req[p].game] = {}

\* C10, as stated: whenever no write is under way on a scope, it holds at
\* most max_history records and its log and its index hold the same ids.
C10_BoundedAndConsistent ==
    \A s \in Scopes :
        ~Busy(s) =>
            /\ Len(log[s]) <= max_history
            /\ Ids(log[s]) = index[s]

\* C10, amended: whenever no write is under way on a scope (an operation
\* has completed, was abandoned, or the process was restarted after a
\* crash in the middle of one), its log and its index hold the same ids,
\* each once; and the scope holds at most max_history records when an
\* add_message on it returns.
C10_LogIndexConsistent ==
    /\ \A s \in Scopes :
          ~Busy(s) =>
              /\ Ids(log[s]) = index[s]
              /\ Cardinality(index[s]) = Len(log[s])
    /\ \A p \in Procs : Added(p) => Len(log[req[p].game]) <= max_history

\* C10 witness: the last record inserted into a scope is gone while older
\* ones are there: a crash cut its insertion short and the restart dropped
\* the half-written record.
C10_Witness ==
    \E s \in Scopes :
        /\ ~Busy(s)
        /\ log[s] # <<>>
        /\ written[s] # <<>>
        /\ written[s][Len(written[s])] \notin Ids(log[s])
        /\ Ids(log[s]) = index[s]

\* The scopes GET /history/games has listed for p.
ListedScopes(p) == {ScopeOfName(e.game) : e \in req[p].games}

\* p holds the answer of GET /history/games.
GotGames(p) == req[p].pc = "read_done" /\ req[p].op = "games"

\* C11: the listing of /history/games contains a scope if and only if the
\* scope holds at least one record.
C11_ListedIffNonEmpty ==
    \A p \in Procs :
        GotGames(p) => ListedScopes(p) = {s \in Scopes : log[s] # <<>>}

\* The operations of C12: a query, a search, statistics, a clear.
ScopeOps == {"history", "search", "stats", "clear"}

\* In this step p's handler moves on in one of these operations.
ScopeOpStep(p) ==
    /\ req'[p].op \in ScopeOps
    /\ req'[p].pc \in {"read_done", "clear_log", "clear_done"}
    /\ req'[p].pc # req[p].pc

\* C12: a query, a search, statistics or a clear of a scope the store does
\* not know answers 200 with empty results, changes no log and no index,
\* and leaves the scope unknown; a scope becomes known only in the first
\* step of an add_message on it.
C12_UnknownScopeNoOp ==
    /\ [](\A p \in Procs :
             /\ req[p].op \in ScopeOps
             /\ req[p].pc \in {"read_done", "clear_done"}
             /\ req[p].game \notin collections
             => /\ req[p].status = 200
                /\ req[p].out = <<>>
                /\ req[p].stats.total_messages = 0
                /\ req[p].stats.oldest = Absent
                /\ req[p].stats.newest = Absent)
    /\ [][\A p \in Procs :
             ScopeOpStep(p) /\ req'[p].game \notin collections =>
                 log' = log /\ index' = index /\ collections' = collections]_vars
    /\ [][\A s \in collections' \ collections :
             \E p \in Procs :
                 /\ req[p].pc = "add_log" /\ req'[p].pc = "add_index"
                 /\ req[p].game = s]_vars

\* C12 witness: a search of a scope the store does not know has returned,
\* empty, while another scope holds records.
C12_Witness ==
    \E p \in Procs :
        /\ req[p].pc = "read_done" /\ req[p].op = "search"
        /\ req[p].game \notin collections
        /\ req[p].out = <<>>
        /\ \E s \in collections : log[s] # <<>>

\* The pattern at place i of the table occurs in message m, whatever the
\* case of the letters.
Occurs(i, m) ==
    LET text == Text(m)
        pattern == temporal_patterns[i].pattern
    IN  \E k \in 0..(Len(text) - Len(pattern)) :
            \A j \in 1..Len(pattern) :
                LowerChar(text[k + j]) = LowerChar(pattern[j])

\* The places of the table whose pattern occurs in message m.
Hits(m) == {i \in 1..Len(temporal_patterns) : Occurs(i, m)}

\* C13: a message is non-temporal if and only if no pattern of the table
\* occurs in it; otherwise its window is that of the pattern that comes
\* first in the table among those that occur.
C13_FirstPatternWins ==
    \A p \in Procs :
        req[p].pc = "parsed" =>
            IF Hits(req[p].msg) = {}
            THEN ~req[p].temporal /\ req[p].hours = Absent
            ELSE /\ req[p].temporal
                 /\ \E i \in Hits(req[p].msg) :
                        /\ \A j \in Hits(req[p].msg) : i <= j
                        /\ req[p].hours = Some(temporal_patterns[i].hours)

\* C13 witness: two phrases with different windows occur in one message,
\* written with capitals, and the window is that of the earlier pattern.
C13_Witness ==
    \E p \in Procs :
        /\ req[p].pc = "parsed"
        /\ Text(req[p].msg) # Lower(Text(req[p].msg))
        /\ \E i, j \in Hits(req[p].msg) :
              /\ i < j
              /\ temporal_patterns[i].hours # temporal_patterns[j].hours
              /\ req[p].hours = Some(temporal_patterns[i].hours)

\* p is about to call the model: enhanced_message is built.
Calling(p) == req[p].pc = "call"

\* C14: on a scope without history get_history_context returns nothing
\* and the model is sent the user's message as it is; the history block is
\* prepended exactly when include_history is set and the scope holds a
\* record, and it is made of the last history_limit records of the scope.
C14_ContextOnlyWithHistory ==
    \A p \in Procs :
        Calling(p) =>
            /\ req[p].prompt.question = req[p].msg
            /\ log[req[p].game] = <<>> =>
                   req[p].out = <<>> /\ ~req[p].prompt.augmented
            /\ req[p].prompt.augmented <=>
                   req[p].include_history /\ log[req[p].game] # <<>>
            /\ req[p].prompt.augmented =>
                   /\ req[p].prompt.context # <<>>
                   /\ req[p].prompt.context =
                          LastN(log[req[p].game], req[p].limit[1])

\* C14 witness: a chat with include_history on a scope that holds nothing,
\* while the other scope holds records: the message goes out as it is.
C14_Witness ==
    \E p \in Procs :
        /\ Calling(p)
        /\ req[p].include_history
        /\ log[req[p].game] = <<>>
        /\ ~req[p].prompt.augmented
        /\ \E s \in Scopes : log[s] # <<>>

\* A chat request has its record in the log and in the index of its scope.
Stored(p) ==
    /\ req[p].rid # 0
    /\ req[p].rid \in Ids(log[req[p].game])
    /\ req[p].rid \in index[req[p].game]

\* C15: when a store call of add_message or of its eviction fails, the
\* request ends with status 500 and not with a response; the failed
\* add_message makes no further store call (no retry); and a chat request
\* answers successfully only when its exchange is stored.
C15_StorageErrorSurfaced ==
    /\ [](\A p \in Procs :
             /\ req[p].pc = "failed" => req[p].status = 500
             /\ req[p].op = "chat" /\ req[p].pc = "add_done" =>
                    req[p].status = 200 /\ Stored(p))
    /\ [][\A p \in Procs :
             /\ req[p].pc \in StoreCalls /\ req'[p].pc \notin StoreCalls
                => \/ req'[p].pc = "failed" /\ log' = log /\ index' = index
                   \/ req'[p].pc = "add_done" /\ Stored(p)'
                   \/ req'[p].pc = "stalled"
             /\ req[p].pc = "failed"
                => /\ log' = log /\ index' = index
                   /\ req'[p].pc \in {"failed", "idle"}]_vars

\* C15 witness: the write of the index failed after the write of the log:
\* the request has failed with 500 and the record is in the log only.
C15_Witness ==
    \E p \in Procs :
        /\ req[p].pc = "failed"
        /\ req[p].status = 500
        /\ req[p].rid \in Ids(log[req[p].game])
        /\ req[p].rid \notin index[req[p].game]

\* p is inside a manager operation that it has started.
InManager(p) == req[p].pc \in StoreCalls \cup {"stalled"}

\* C16: every started manager operation eventually completes or fails.
C16_NoIndefiniteBlocking ==
    \A p \in Procs : InManager(p) ~> ~InManager(p)

\* p holds the answer of POST /history/search.
GotSearch(p) == req[p].pc = "read_done" /\ req[p].op = "search"

\* C17: a search returns min(n_results, records of the scope) distinct
\* records, all retained in the scope that was asked for, by descending
\* similarity to the query and, at equal similarity, more recent first;
\* no record left out is more similar than one returned; the answer is
\* 200, and empty when the scope holds nothing, whatever the query.
C17_SearchTopK ==
    \A p \in Procs :
        GotSearch(p) =>
            LET out == req[p].out
                lg == log[req[p].game]
                sim(r) == Similarity(req[p].msg, r)
            IN  /\ req[p].status = 200
                /\ Len(out) = Min(req[p].arg, Len(lg))
                /\ \A i \in 1..Len(out) :
                      /\ out[i] \in Range(lg)
                      /\ out[i].id \in index[req[p].game]
                      /\ out[i].scope = req[p].game
                /\ \A i, j \in 1..Len(out) :
                      i < j =>
                          /\ out[i].id # out[j].id
                          /\ sim(out[i]) >= sim(out[j])
                          /\ sim(out[i]) = sim(out[j]) => out[i].ts >= out[j].ts
                /\ \A r \in Range(lg) \ Range(out), q \in Range(out) :
                      sim(r) <= sim(q)

\* C17 witness: an older record that matches the query comes before a more
\* recent one that does not.
C17_Witness ==
    \E p \in Procs :
        /\ GotSearch(p)
        /\ Len(req[p].out) >= 2
        /\ Similarity(req[p].msg, req[p].out[1]) >
               Similarity(req[p].msg, req[p].out[2])
        /\ req[p].out[1].ts < req[p].out[2].ts

\* p's chat request is about to return its response.
ChatAnswered(p) == req[p].op = "chat" /\ req[p].pc = "add_done"

\* C18: a chat request that returns a response has appended one record,
\* to its own scope, where it is the newest, and none to another scope: a
\* record enters a log only in the add_message of a chat request that has
\* not stored one yet, on that request's scope; on the temporal path the
\* history read for the answer holds only records that were there before,
\* never the record of the exchange itself.
C18_OneRecordPerChat ==
    /\ [](\A p \in Procs :
             /\ ChatAnswered(p) =>
                    /\ req[p].status = 200
                    /\ req[p].rid # 0
                    /\ log[req[p].game] # <<>>
                    /\ log[req[p].game][Len(log[req[p].game])].id = req[p].rid
                    /\ \A s \in Scopes \ {req[p].game} :
                          req[p].rid \notin Ids(log[s])
             /\ req[p].op = "chat" /\ req[p].temporal =>
                    /\ req[p].rid \notin Ids(req[p].out)
                    /\ \A r \in Range(req[p].out) : r.id < nextId
                    /\ req[p].resp = TemporalResponse(req[p].out))
    /\ [][\A s \in Scopes :
             Ids(log'[s]) \ Ids(log[s]) # {} =>
                 \E p \in Procs :
                     /\ req[p].op = "chat" /\ req[p].pc = "add_log"
                     /\ req[p].rid = 0 /\ req'[p].rid = nextId
                     /\ req[p].game = s
                     /\ log'[s] = Append(log[s], log'[s][Len(log'[s])])
                     /\ log'[s][Len(log'[s])].id = nextId
                     /\ \A t \in Scopes \ {s} : log'[t] = log[t]]_vars

\* C18 witness: a temporal chat is about to return a summary of the two
\* records its scope held, and its own record is the third.
C18_Witness ==
    \E p \in Procs :
        /\ ChatAnswered(p)
        /\ req[p].temporal
        /\ Len(req[p].out) = 2
        /\ IdSeq(log[req[p].game]) = IdSeq(req[p].out) \o <<req[p].rid>>

\* All the records that are stored.
AllRecords == UNION {Range(log[s]) : s \in Scopes}

\* The context handed back to a chat is within the limit that was asked.
ContextWithinLimit ==
    \A p \in Procs :
        Calling(p) /\ req[p].include_history =>
            Len(req[p].prompt.context) <= req[p].limit[1]

\* C19, as stated: the user_message of every stored record is a message as
\* a caller sent it, no stored record contains text of earlier records, and
\* the context block holds at most `limit` records.
C19_NoEarlierText ==
    /\ \A r \in AllRecords : r.user \in Messages /\ r.resp.quotes = <<>>
    /\ ContextWithinLimit

\* C19, amended: add_message is given the request's own message as
\* user_message, so every stored user_message is a message as a caller
\* sent it; only the assistant_response of a temporal exchange quotes other
\* records, all of them older; and the context block holds at most `limit`
\* records.
C19_OriginalMessageStored ==
    /\ [](\A r \in AllRecords :
             /\ r.user \in Messages
             /\ r.resp.quotes # <<>> =>
                    /\ temporal_info_of[r.user].is_temporal
                    /\ r.resp.kind = "summary"
                    /\ \A i \in 1..Len(r.resp.quotes) : r.resp.quotes[i] < r.id)
    /\ []ContextWithinLimit
    /\ [][\A p \in Procs :
             req[p].pc = "add_log" /\ req'[p].pc = "add_index" =>
                 LET lg == log'[req[p].game]
                 IN  /\ lg[Len(lg)].id = req'[p].rid
                     /\ lg[Len(lg)].user = req[p].msg
                     /\ lg[Len(lg)].resp = req[p].resp]_vars

\* C19 witness: the scope holds more records than the limit, a chat with
\* include_history gets a context of `limit` records, and one of the
\* stored records is a summary that quotes an older one.
C19_Witness ==
    \E p \in Procs :
        /\ Calling(p) /\ req[p].include_history
        /\ Len(log[req[p].game]) > req[p].limit[1]
        /\ Len(req[p].prompt.context) = req[p].limit[1]
        /\ \E r \in Range(log[req[p].game]) : r.resp.quotes # <<>>

\* p's chat request has its add_message behind it.
PastAdd(p) == req[p].pc \in {"add_done", "idle"}

\* C20: of two chat requests that overlap on one scope, each finds its own
\* record the newest of the scope when its add_message returns, with the
\* scope within max_history; and once both add_message calls have
\* returned, with max_history >= 2, the scope ends with the two records,
\* the one whose add_message returned first before the other, both in the
\* index.
C20_NoLostUpdate ==
    /\ \A p \in Procs :
          Added(p) =>
              LET lg == log[req[p].game]
              IN  /\ req[p].status = 200
                  /\ req[p].rid = nextId - 1
                  /\ lg # <<>> /\ lg[Len(lg)].id = req[p].rid
                  /\ Len(lg) <= max_history
    /\ (\A p \in Procs : PastAdd(p)) /\ max_history >= 2 =>
          \A s \in collections :
              /\ LastN(IdSeq(log[s]), 2) = <<nextId - 2, nextId - 1>>
              /\ {nextId - 2, nextId - 1} \subseteq index[s]
              /\ Len(log[s]) <= max_history

\* C20 witness: the second of the two requests is about to return, the
\* first has returned; max_history is 2, the scope held one exchange
\* before, and it now holds the records of the two requests, in the order
\* of their add_message calls.
C20_Witness ==
    \E p \in Procs :
        /\ Added(p)
        /\ \A q \in Procs \ {p} : req[q].pc = "idle"
        /\ max_history = 2
        /\ written[req[p].game] = <<1, 2, 3>>
        /\ IdSeq(log[req[p].game]) = <<2, 3>>
        /\ req[p].rid = 3

\* Two chat requests wait for the model on one scope that holds a record.
BothAwaiting ==
    \E g \in Scopes :
        /\ req = [p \in Procs |-> Awaiting(g)]
        /\ Len(log[g]) = 1
        /\ max_history = 2

====
